---- MODULE Spec2Model ----
(***************************************************************************)
(* A model of DocSearch.py: the term-frequency maps, the inverted index    *)
(* built by a pool of workers over slices of the vocabulary, and the       *)
(* processing of queries (boolean AND filter, then the angle between the   *)
(* query's and each candidate's term-frequency vector, computed by a pool  *)
(* of workers over slices of the candidate list, then a sort by angle).    *)
(*                                                                         *)
(* Python lists are sequences: the Python index i is the position i + 1.   *)
(* A Python dict, which keeps its keys in insertion order, is a sequence   *)
(* of <<key, value>> pairs without two pairs of the same key.              *)
(*                                                                         *)
(* Numbers.  The slice bounds are computed by the code in double           *)
(* precision; here they are exact rationals rounded half to even, which    *)
(* gives the same integers as the doubles for every list length and        *)
(* worker count within (and one past) the bounds below.  An angle is kept  *)
(* as the three integers it is computed from (dot product, squared norms); *)
(* angles are compared through the cosine, exactly.                        *)
(***************************************************************************)
EXTENDS Integers, Sequences, FiniteSets, TLC

\* The tokens a line of docs.txt or of queries.txt is made of.
Terms == {"a", "b"}

\* Bounds of the model.
MaxDocs == 2
MaxTokens == 3
MaxQueryLen == 2
MaxWorkers == 3
MaxListLen == 12
MaxPartWorkers == 6

VARIABLES
    corpus,          \* docs.txt: the lines, each a sequence of tokens
    cpu_num,         \* cpu_count()
    more_queries,    \* queries.txt has lines the loop has not taken yet
    pc,              \* where the main program is
    docs,            \* build_doc_dicts' list: docs[1] is the empty document 0
    corpus_dict,     \* build_corpus_dict's dict
    index_pool,      \* the Pool of build_inverted_index
    itasks,          \* the tasks build_inverted_index has in its pool
    inverted_index,  \* the inverted index (being) built
    query_pool,      \* the Pool of process_queries
    qtasks,          \* the tasks process_query has in the pool
    got,             \* how many results the running join loop has fetched
    query,           \* the query being processed, a sequence of tokens
    relevant_docs,   \* list(relevant_docs) of the query being processed
    angle_dict,      \* angle_dict of the query being processed
    output,          \* the ranking lines printed for the query being processed
    part             \* the slices of a list computed so far (PartSpec)

progvars == <<corpus, cpu_num, more_queries, pc, docs, corpus_dict, index_pool,
              itasks, inverted_index, query_pool, qtasks, got, query,
              relevant_docs, angle_dict, output>>

vars == <<progvars, part>>

----------------------------------------------------------------------------
(* Lists and dicts *)

SeqsUpTo(S, k) == UNION {[1..m -> S] : m \in 0..k}

Min(a, b) == IF a < b THEN a ELSE b

Max(a, b) == IF a > b THEN a ELSE b

\* range(n) as a list: 0, 1, ..., n-1
Range(n) == [i \in 1..n |-> i - 1]

\* list[start:end] of Python: a negative bound counts from the end, and
\* both bounds are clamped to the list.
PySliceBound(k, n) == IF k < 0 THEN Max(k + n, 0) ELSE Min(k, n)

PySlice(list, start, end) ==
    SubSeq(list, PySliceBound(start, Len(list)) + 1, PySliceBound(end, Len(list)))

\* the keys of a dict, in iteration order
Keys(d) == [i \in 1..Len(d) |-> d[i][1]]

KeySet(d) == {d[i][1] : i \in 1..Len(d)}

\* key in d
DictHas(d, k) == \E i \in 1..Len(d) : d[i][1] = k

\* d[key], for a key of d
DictGet(d, k) == d[CHOOSE i \in 1..Len(d) : d[i][1] = k][2]

\* d[key] = v: a new key goes last, a present key keeps its place
DictPut(d, k, v) ==
    IF DictHas(d, k)
    THEN [i \in 1..Len(d) |-> IF d[i][1] = k THEN <<k, v>> ELSE d[i]]
    ELSE Append(d, <<k, v>>)

\* doc.count(word)
ListCount(doc, word) == Cardinality({i \in 1..Len(doc) : doc[i] = word})

\* The orders list(s) may give the elements of a set s.
ListsOfSet(s) ==
    {l \in [1..Cardinality(s) -> s] : \A i, j \in 1..Cardinality(s) : i # j => l[i] # l[j]}

----------------------------------------------------------------------------
(* build_doc_dict, build_doc_dicts, build_corpus_dict *)

RECURSIVE build_doc_dict_loop(_, _, _)
build_doc_dict_loop(doc, k, out) ==
    IF k > Len(doc) THEN out
    ELSE build_doc_dict_loop(doc, k + 1,
            IF ~DictHas(out, doc[k])
            THEN DictPut(out, doc[k], ListCount(doc, doc[k]))
            ELSE out)

build_doc_dict(doc) == build_doc_dict_loop(doc, 1, <<>>)

build_doc_dicts(lines) ==
    <<(<<>>)>> \o [i \in 1..Len(lines) |-> build_doc_dict(lines[i])]

\* the inner loop of build_corpus_dict: one document's words merged in
RECURSIVE merge_doc_counts(_, _, _)
merge_doc_counts(out, doc, k) ==
    IF k > Len(doc) THEN out
    ELSE merge_doc_counts(
            IF DictHas(out, doc[k][1])
            THEN DictPut(out, doc[k][1], DictGet(out, doc[k][1]) + doc[k][2])
            ELSE DictPut(out, doc[k][1], doc[k][2]),
            doc, k + 1)

RECURSIVE build_corpus_dict_loop(_, _, _)
build_corpus_dict_loop(ds, k, out) ==
    IF k > Len(ds) THEN out
    ELSE build_corpus_dict_loop(ds, k + 1, merge_doc_counts(out, ds[k], 1))

build_corpus_dict(ds) == build_corpus_dict_loop(ds, 1, <<>>)

----------------------------------------------------------------------------
(* The slices of a list of n items for cpu_num workers *)

\* Python's round() of the rational num / den (den > 0): to the nearest
\* integer, a tie to the even one.
RoundHalfEven(num, den) ==
    LET f == num \div den
        r == num % den
    IN  IF 2 * r < den THEN f
        ELSE IF 2 * r > den THEN f + 1
        ELSE IF f % 2 = 0 THEN f ELSE f + 1

\* round((i * (n / w)) - 0.5)
start_index(i, n, w) == RoundHalfEven(2 * i * n - w, 2 * w)

\* round((start + (n / w)) + 0.5), with the bug of rounding down instead
end_index_rounded_down(start, n, w) == RoundHalfEven(2 * w * start + 2 * n - w, 2 * w)

\* round((start + (n / w)) + 0.5)
end_index(start, n, w) == RoundHalfEven(2 * w * start + 2 * n + w, 2 * w)

\* the i-th worker's slice of the list
process_slice(list, i, w) ==
    PySlice(list, start_index(i, Len(list), w),
            end_index(start_index(i, Len(list), w), Len(list), w))

----------------------------------------------------------------------------
(* build_index_for and the merge of the partial indices *)

\* the IDs of the documents that hold the word, with the bug of leaving
\* out the last document
postings_without_last(word, ds) ==
    SelectSeq(Range(Len(ds) - 1), LAMBDA i : DictHas(ds[i + 1], word))

\* the inner loop of build_index_for: the IDs i in range(len(docs)), in
\* that order, of the documents with word in docs[i]
postings(word, ds) ==
    SelectSeq(Range(Len(ds)), LAMBDA i : DictHas(ds[i + 1], word))

RECURSIVE build_index_for_loop(_, _, _, _)
build_index_for_loop(word_list, ds, k, out) ==
    IF k > Len(word_list) THEN out
    ELSE build_index_for_loop(word_list, ds, k + 1,
                              DictPut(out, word_list[k], postings(word_list[k], ds)))

build_index_for(word_list, ds) == build_index_for_loop(word_list, ds, 1, <<>>)

\* word_list of build_inverted_index: the words of corpus_dict, in its order
word_list_of(cd) == Keys(cd)

RECURSIVE merge_dict_loop(_, _, _)
merge_dict_loop(full, partial, k) ==
    IF k > Len(partial) THEN full
    ELSE merge_dict_loop(DictPut(full, partial[k][1], partial[k][2]), partial, k + 1)

\* the merge, with the bug of keeping only the partial result
merge_partial_replacing(full, partial) == partial

\* for key in partial: full[key] = partial[key]
merge_partial(full, partial) == merge_dict_loop(full, partial, 1)

\* build_inverted_index as a function: the w slices indexed one after the
\* other and merged in the order of the results list
RECURSIVE build_inverted_index_loop(_, _, _, _, _)
build_inverted_index_loop(ds, word_list, w, i, full) ==
    IF i >= w THEN full
    ELSE build_inverted_index_loop(ds, word_list, w, i + 1,
            merge_partial(full, build_index_for(process_slice(word_list, i, w), ds)))

build_inverted_index(ds, cd, w) ==
    build_inverted_index_loop(ds, word_list_of(cd), w, 0, <<>>)

----------------------------------------------------------------------------
(* build_vector, calc_angles, the sort of the ranking *)

\* build_vector with the bug of marking a word's presence instead of
\* taking its count
build_vector_of_presence(doc, index) ==
    [i \in 1..Len(index) |-> IF DictHas(doc, index[i][1]) THEN 1 ELSE 0]

\* for word in inverted_index: doc[word], or 0 on KeyError
build_vector(doc, index) ==
    [i \in 1..Len(index) |->
        IF DictHas(doc, index[i][1]) THEN DictGet(doc, index[i][1]) ELSE 0]

RECURSIVE SumTo(_, _)
SumTo(v, k) == IF k = 0 THEN 0 ELSE v[k] + SumTo(v, k - 1)

\* np.dot(u, v) of two arrays of one length
Dot(u, v) == SumTo([i \in 1..Len(u) |-> u[i] * v[i]], Len(u))

\* np.linalg.norm(v), squared
Norm2(v) == Dot(v, v)

\* degrees(arccos(dot / (norm * query_norm))), kept as the integers it is
\* computed from
Angle(vector, query_vector) ==
    [dot |-> Dot(vector, query_vector), norm2 |-> Norm2(vector),
     qnorm2 |-> Norm2(query_vector)]

\* 0 / 0 in numpy is nan, and so are its arccos and its degrees
IsNaN(a) == a.norm2 * a.qnorm2 = 0

\* a < b for two angles: arccos decreases, the cosines are not negative,
\* and every comparison with nan is false
AngleLess(a, b) ==
    /\ ~IsNaN(a)
    /\ ~IsNaN(b)
    /\ a.dot * a.dot * b.norm2 * b.qnorm2 > b.dot * b.dot * a.norm2 * a.qnorm2

AngleEq(a, b) ==
    /\ ~IsNaN(a)
    /\ ~IsNaN(b)
    /\ a.dot * a.dot * b.norm2 * b.qnorm2 = b.dot * b.dot * a.norm2 * a.qnorm2

\* what a worker computes for its slice of the candidates: the returned
\* angle_dict, and the vectors it built on the way
calc_angles(rel, ds, index, q) ==
    LET query_vector == build_vector(build_doc_dict(q), index)
        vector(docID) == build_vector(ds[docID + 1], index)
    IN  [angles |-> [k \in 1..Len(rel) |-> <<rel[k], Angle(vector(rel[k]), query_vector)>>],
         query_vector |-> query_vector,
         vectors |-> [k \in 1..Len(rel) |-> <<rel[k], vector(rel[k])>>]]

NoResult == [angles |-> <<>>, query_vector |-> <<>>, vectors |-> <<>>]

\* sorted(): stable, an item goes before the first one it is less than
RECURSIVE InsertSorted(_, _, _)
InsertSorted(sorted, item, k) ==
    IF k > Len(sorted) THEN Append(sorted, item)
    ELSE IF AngleLess(item[2], sorted[k][2])
         THEN SubSeq(sorted, 1, k - 1) \o <<item>> \o SubSeq(sorted, k, Len(sorted))
         ELSE InsertSorted(sorted, item, k + 1)

RECURSIVE sorted_by_angle_loop(_, _, _)
sorted_by_angle_loop(d, k, sorted) ==
    IF k > Len(d) THEN sorted
    ELSE sorted_by_angle_loop(d, k + 1, InsertSorted(sorted, d[k], 1))

\* the lines <<docID, angle>> of
\* for docID in sorted(angle_dict, key=angle_dict.__getitem__): print(...)
sorted_by_angle(d) == sorted_by_angle_loop(d, 1, <<>>)

----------------------------------------------------------------------------
(* The candidate filter of process_query *)

\* a word of the query for which inverted_index[word] raises KeyError
RaisesKeyError(q, index) == \E k \in 1..Len(q) : ~DictHas(index, q[k])

RECURSIVE filter_loop(_, _, _, _)
filter_loop(q, index, k, rel) ==
    IF k > Len(q) THEN rel
    ELSE filter_loop(q, index, k + 1,
                     rel \cap {DictGet(index, q[k])[j] : j \in 1..Len(DictGet(index, q[k]))})

\* relevant_docs after the loop of intersection_update, when no word raises
filter_candidates(q, index, ds) == filter_loop(q, index, 1, {i - 1 : i \in 1..Len(ds)})

----------------------------------------------------------------------------
(* The program *)

\* a line of queries.txt, split
QueryLines == SeqsUpTo(Terms, MaxQueryLen)

RECURSIVE TokensIn(_, _)
TokensIn(lines, k) == IF k = 0 THEN 0 ELSE Len(lines[k]) + TokensIn(lines, k - 1)

\* docs.txt, its lines split: at most MaxDocs lines (a line may be blank)
\* of MaxTokens tokens in all
Corpora ==
    {c \in SeqsUpTo(SeqsUpTo(Terms, MaxTokens), MaxDocs) : TokensIn(c, Len(c)) <= MaxTokens}

NoPart == [n |-> 0, w |-> 1, i |-> 0, slices |-> <<>>]

\* Before main runs.
Idle ==
    /\ pc = "start"
    /\ docs = <<>>
    /\ corpus_dict = <<>>
    /\ index_pool = "none"
    /\ itasks = {}
    /\ inverted_index = <<>>
    /\ query_pool = "none"
    /\ qtasks = {}
    /\ got = 0
    /\ query = <<>>
    /\ relevant_docs = <<>>
    /\ angle_dict = <<>>
    /\ output = <<>>

\* docs.txt, queries.txt and the machine are any.  queries.txt is any list
\* of lines: a line is decided when the loop of process_queries takes it,
\* and with it whether lines follow it.
Init ==
    /\ corpus \in Corpora
    /\ cpu_num \in 1..MaxWorkers
    /\ more_queries \in BOOLEAN
    /\ Idle
    /\ part = NoPart

\* main: docs = build_doc_dicts(docs); corpus_dict = build_corpus_dict(docs)
LoadCorpus ==
    /\ pc = "start"
    /\ docs' = build_doc_dicts(corpus)
    /\ corpus_dict' = build_corpus_dict(docs')
    /\ pc' = "build_inverted_index"
    /\ UNCHANGED <<corpus, cpu_num, more_queries, index_pool, itasks,
                   inverted_index, query_pool, qtasks, got, query,
                   relevant_docs, angle_dict, output, part>>

\* build_inverted_index up to its join loop: the pool, and one task for
\* each slice of the word list
IndexDispatch ==
    /\ pc = "build_inverted_index"
    /\ index_pool' = "open"
    /\ inverted_index' = <<>>
    /\ itasks' = {[idx |-> i,
                   arg |-> process_slice(word_list_of(corpus_dict), i, cpu_num),
                   done |-> FALSE,
                   result |-> <<>>] : i \in 0..(cpu_num - 1)}
    /\ got' = 0
    /\ pc' = "index_join"
    /\ UNCHANGED <<corpus, cpu_num, more_queries, docs, corpus_dict, query_pool,
                   qtasks, query, relevant_docs, angle_dict, output, part>>

\* a worker of the pool runs build_index_for on a task's slice
IndexWorker ==
    \E t \in itasks :
        /\ ~t.done
        /\ itasks' = (itasks \ {t}) \cup
                     {[t EXCEPT !.done = TRUE, !.result = build_index_for(t.arg, docs)]}
        /\ UNCHANGED <<corpus, cpu_num, more_queries, pc, docs, corpus_dict,
                       index_pool, inverted_index, query_pool, qtasks, got,
                       query, relevant_docs, angle_dict, output, part>>

\* result.get() returns once the task has run
index_result_ready(t) == t.done

\* one round of the join loop of build_inverted_index
IndexGet ==
    /\ pc = "index_join"
    /\ got < cpu_num
    /\ \E t \in itasks :
        /\ t.idx = got
        /\ index_result_ready(t)
        /\ inverted_index' = merge_partial(inverted_index, t.result)
        /\ itasks' = itasks \ {t}
    /\ got' = got + 1
    /\ UNCHANGED <<corpus, cpu_num, more_queries, pc, docs, corpus_dict,
                   index_pool, query_pool, qtasks, query, relevant_docs,
                   angle_dict, output, part>>

\* the end of build_inverted_index (pool.close(), return), and
\* process_queries up to its loop (its own Pool())
IndexDone ==
    /\ pc = "index_join"
    /\ got = cpu_num
    /\ index_pool' = "closed"
    /\ query_pool' = "open"
    /\ got' = 0
    /\ pc' = "next_query"
    /\ UNCHANGED <<corpus, cpu_num, more_queries, docs, corpus_dict, itasks,
                   inverted_index, qtasks, query, relevant_docs, angle_dict,
                   output, part>>

\* process_query on the next line of queries.txt, when a word of it is not
\* in the index: inverted_index[word] raises KeyError, which the except
\* NameError does not catch, and nothing up to the end of main does
QueryRaises ==
    /\ pc = "next_query"
    /\ more_queries
    /\ \E q \in QueryLines :
        /\ RaisesKeyError(q, inverted_index)
        /\ query' = q
    /\ more_queries' \in BOOLEAN
    /\ pc' = "crashed"
    /\ UNCHANGED <<corpus, cpu_num, docs, corpus_dict, index_pool, itasks,
                   inverted_index, query_pool, qtasks, got, relevant_docs,
                   angle_dict, output, part>>

\* process_query on the next line of queries.txt, up to its join loop: the
\* candidates, their list (in any order a set may give), one task for each
\* slice of the list
QueryDispatch ==
    /\ pc = "next_query"
    /\ more_queries
    /\ \E q \in QueryLines :
        /\ ~RaisesKeyError(q, inverted_index)
        /\ query' = q
        /\ \E rel \in ListsOfSet(filter_candidates(q, inverted_index, docs)) :
            /\ relevant_docs' = rel
            /\ qtasks' = qtasks \cup
                    {[query |-> q,
                      idx |-> i,
                      arg |-> process_slice(rel, i, cpu_num),
                      done |-> FALSE,
                      result |-> NoResult] : i \in 0..(cpu_num - 1)}
    /\ more_queries' \in BOOLEAN
    /\ angle_dict' = <<>>
    /\ output' = <<>>
    /\ got' = 0
    /\ pc' = "rank_join"
    /\ UNCHANGED <<corpus, cpu_num, docs, corpus_dict, index_pool, itasks,
                   inverted_index, query_pool, part>>

\* a worker of the pool runs calc_angles on a task's slice
AngleWorker ==
    \E t \in qtasks :
        /\ ~t.done
        /\ qtasks' = (qtasks \ {t}) \cup
                     {[t EXCEPT !.done = TRUE,
                                !.result = calc_angles(t.arg, docs, inverted_index, t.query)]}
        /\ UNCHANGED <<corpus, cpu_num, more_queries, pc, docs, corpus_dict,
                       index_pool, itasks, inverted_index, query_pool, got,
                       query, relevant_docs, angle_dict, output, part>>

\* result.get(), with the bug of not waiting for the task
rank_result_ready_without_wait(t) == TRUE

\* result.get() returns once the task has run
rank_result_ready(t) == t.done

\* one round of the join loop of process_query, on the result of the
\* task it dispatched for slice number got
RankGet ==
    /\ pc = "rank_join"
    /\ got < cpu_num
    /\ \E t \in qtasks :
        /\ t.query = query
        /\ t.idx = got
        /\ rank_result_ready(t)
        /\ angle_dict' = merge_partial(angle_dict, t.result.angles)
        /\ qtasks' = IF t.done THEN qtasks \ {t} ELSE qtasks
    /\ got' = got + 1
    /\ UNCHANGED <<corpus, cpu_num, more_queries, pc, docs, corpus_dict,
                   index_pool, itasks, inverted_index, query_pool, query,
                   relevant_docs, output, part>>

\* the last loop of process_query: the ranking is printed, sorted by angle
PrintRanking ==
    /\ pc = "rank_join"
    /\ got = cpu_num
    /\ output' = sorted_by_angle(angle_dict)
    /\ pc' = "printed"
    /\ UNCHANGED <<corpus, cpu_num, more_queries, docs, corpus_dict, index_pool,
                   itasks, inverted_index, query_pool, qtasks, got, query,
                   relevant_docs, angle_dict, part>>

\* process_query returns to the loop of process_queries: its locals are gone
QueryReturn ==
    /\ pc = "printed"
    /\ query' = <<>>
    /\ relevant_docs' = <<>>
    /\ angle_dict' = <<>>
    /\ output' = <<>>
    /\ got' = 0
    /\ pc' = "next_query"
    /\ UNCHANGED <<corpus, cpu_num, more_queries, docs, corpus_dict, index_pool,
                   itasks, inverted_index, query_pool, qtasks, part>>

\* the end of process_queries, after the last query: pool.close()
QueriesDone ==
    /\ pc = "next_query"
    /\ ~more_queries
    /\ query_pool' = "closed"
    /\ pc' = "done"
    /\ UNCHANGED <<corpus, cpu_num, more_queries, docs, corpus_dict, index_pool,
                   itasks, inverted_index, qtasks, got, query, relevant_docs,
                   angle_dict, output, part>>

Next ==
    \/ LoadCorpus
    \/ IndexDispatch
    \/ IndexWorker
    \/ IndexGet
    \/ IndexDone
    \/ QueryRaises
    \/ QueryDispatch
    \/ AngleWorker
    \/ RankGet
    \/ PrintRanking
    \/ QueryReturn
    \/ QueriesDone

Spec == Init /\ [][Next]_vars

----------------------------------------------------------------------------
(* The slices alone, for longer lists than a small corpus gives *)

PartInit ==
    /\ corpus = <<>>
    /\ cpu_num = 1
    /\ more_queries = FALSE
    /\ Idle
    /\ \E n \in 0..MaxListLen, w \in 1..MaxPartWorkers :
        part = [n |-> n, w |-> w, i |-> 0, slices |-> <<>>]

\* one round of a dispatch loop: the positions of the list range(n) that
\* the slice of worker i holds
PartitionStep ==
    /\ part.i < part.w
    /\ part' = [part EXCEPT
                    !.i = part.i + 1,
                    !.slices = Append(part.slices, process_slice(Range(part.n), part.i, part.w))]
    /\ UNCHANGED progvars

PartNext == PartitionStep

PartSpec == PartInit /\ [][PartNext]_vars

----------------------------------------------------------------------------
(* What the claims speak of, stated from docs.txt and queries.txt as read *)

\* the program has ended: main returned, or an exception ended it
Ended == pc \in {"done", "crashed"}

\* build_inverted_index has returned its index, and process_queries is
\* between two queries
IndexBuilt == index_pool = "closed" /\ pc = "next_query"

\* the tokens of document docID; document 0 is the empty one put in front
TokensOf(docID) == IF docID = 0 THEN <<>> ELSE corpus[docID]

DocIDs == 0..Len(corpus)

Occurrences(tokens, term) == Cardinality({k \in 1..Len(tokens) : tokens[k] = term})

ElementsOf(list) == {list[k] : k \in 1..Len(list)}

\* the terms of the corpus
Vocabulary == UNION {ElementsOf(corpus[d]) : d \in 1..Len(corpus)}

RECURSIVE Flatten(_, _)
Flatten(lines, k) == IF k = 0 THEN <<>> ELSE Flatten(lines, k - 1) \o lines[k]

RECURSIVE FirstOccurrences(_, _)
FirstOccurrences(tokens, k) ==
    IF k = 0 THEN <<>>
    ELSE LET before == FirstOccurrences(tokens, k - 1)
         IN  IF \E j \in 1..(k - 1) : tokens[j] = tokens[k]
             THEN before ELSE Append(before, tokens[k])

\* the vocabulary in first-seen order: documents in ID order, the terms of
\* a document in the order of their first occurrence
FirstSeen == FirstOccurrences(Flatten(corpus, Len(corpus)), Len(Flatten(corpus, Len(corpus))))

StrictlyAscending(list) == \A i, j \in 1..Len(list) : i < j => list[i] < list[j]

\* a vector holds, dimension by dimension, the counts in the tokens of the
\* terms of the vocabulary in the order given
IsTermFrequencyVector(v, tokens, order) ==
    /\ Len(v) = Len(order)
    /\ \A i \in 1..Len(v) : v[i] = Occurrences(tokens, order[i])

\* how many of the slices hold the position
SlicesHolding(pos) ==
    Cardinality({i \in 1..Len(part.slices) : pos \in ElementsOf(part.slices[i])})

----------------------------------------------------------------------------
(* The claims *)

\* C1: a query with a term that is not a key of the inverted index is
\* answered: process_query does not fail on it, and the candidate set it
\* reports is empty.
C1_UnseenTermGivesNoCandidates ==
    (\E k \in 1..Len(query) : query[k] \notin KeySet(inverted_index))
        => (pc # "crashed" /\ relevant_docs = <<>>)

\* C2: the index build_inverted_index returns has the corpus vocabulary as
\* its keys, each once, and the postings list of a term is the strictly
\* ascending list of the IDs of the documents in which the term occurs.
C2_IndexIsThePostingsOfTheCorpus ==
    IndexBuilt =>
        /\ KeySet(inverted_index) = Vocabulary
        /\ Len(inverted_index) = Cardinality(Vocabulary)
        /\ \A term \in Vocabulary :
            /\ StrictlyAscending(DictGet(inverted_index, term))
            /\ ElementsOf(DictGet(inverted_index, term))
                    = {d \in DocIDs : Occurrences(TokensOf(d), term) > 0}

\* C2's case: an index built by several workers, with a term of two
\* documents and a term that a document lacks
C2_Witness ==
    /\ IndexBuilt
    /\ cpu_num > 1
    /\ Len(inverted_index) = 2
    /\ \E i, j \in 1..Len(inverted_index) :
        /\ Len(inverted_index[i][2]) = 2
        /\ Len(inverted_index[j][2]) = 1

\* C3: the index built with cpu_num workers has the keys and the postings
\* lists of the index built from the same corpus with one worker.
C3_SameIndexAsWithOneWorker ==
    IndexBuilt =>
        LET one == build_inverted_index(docs, corpus_dict, 1)
        IN  /\ KeySet(inverted_index) = KeySet(one)
            /\ \A term \in KeySet(one) :
                    DictGet(inverted_index, term) = DictGet(one, term)

\* C3's case: an index built by more workers than the vocabulary has terms
C3_Witness ==
    /\ IndexBuilt
    /\ Len(inverted_index) >= 1
    /\ cpu_num > Len(inverted_index)

\* C4: in the ranking printed for a query, a document of smaller angle
\* comes before one of larger angle, and of two documents of equal angle
\* the one of smaller ID comes first.
C4_RankedByAngleThenID ==
    pc = "printed" =>
        \A i, j \in 1..Len(output) :
            i < j =>
                /\ ~AngleLess(output[j][2], output[i][2])
                /\ AngleEq(output[i][2], output[j][2]) => output[i][1] < output[j][1]

\* C5: no angle is computed or printed for a document and a query of which
\* one has a vector of norm zero.
C5_NoAngleForZeroNorm ==
    /\ \A t \in qtasks : \A k \in 1..Len(t.result.angles) : ~IsNaN(t.result.angles[k][2])
    /\ \A k \in 1..Len(angle_dict) : ~IsNaN(angle_dict[k][2])
    /\ \A k \in 1..Len(output) : ~IsNaN(output[k][2])

\* C6: a query that fails does not keep the later queries from being
\* processed: when the program has ended, no line of queries.txt is left.
C6_LaterQueriesAreProcessed == Ended => ~more_queries

\* C8: no run of process_queries ends with its pool open, whether the
\* queries all completed or one raised an error.
C8_PoolClosedOnEveryExit == Ended => query_pool = "closed"

\* C9: the tasks in the pool are those of the query being processed, while
\* its join loop runs; when its ranking is printed they have all completed
\* and been merged, and none is left when the next query is taken.
C9_OneQueryAtATime ==
    /\ \A t \in qtasks : pc = "rank_join" /\ t.query = query
    /\ output # <<>> => pc = "printed"
    /\ pc = "printed" =>
        /\ KeySet(angle_dict) = ElementsOf(relevant_docs)
        /\ KeySet(output) = ElementsOf(relevant_docs)

\* C9's case: the ranking of several candidates, computed by several
\* workers, has been printed
C9_Witness ==
    /\ pc = "printed"
    /\ cpu_num > 1
    /\ Len(output) > 1

\* C10: every vector build_vector made from the merged index, for the query
\* and for a candidate, has the length of the vocabulary and holds at
\* dimension i the count of the i-th term of the vocabulary in first-seen
\* order, 0 for a term that is absent.
C10_VectorsFollowTheVocabulary ==
    \A t \in qtasks :
        t.done =>
            LET order == FirstSeen
            IN  /\ IsTermFrequencyVector(t.result.query_vector, t.query, order)
                /\ \A k \in 1..Len(t.result.vectors) :
                        IsTermFrequencyVector(t.result.vectors[k][2],
                                              TokensOf(t.result.vectors[k][1]), order)

\* C10's case: a worker has built the vector of a candidate that lacks a
\* term of a vocabulary of two terms, for a query that repeats a term
C10_Witness ==
    \E t \in qtasks :
        /\ t.done
        /\ cpu_num > 1
        /\ Len(t.result.query_vector) = 2
        /\ \E i \in 1..2 : t.result.query_vector[i] = 2
        /\ \E k \in 1..Len(t.result.vectors) :
            \E i \in 1..2 : t.result.vectors[k][2][i] = 0

====
